---------------------------- MODULE Spec2Model ----------------------------
(***************************************************************************)
(* A model of rinpy/rinex.py: the RINEX observation file decoder.          *)
(*                                                                         *)
(* A file is a sequence of lines and a line is a sequence of one-character *)
(* strings (its line terminator included, as readline() and                *)
(* splitlines(True) keep it), so every fixed-column slice, strip(),        *)
(* split(), int() and struct.unpack_from() of the source is computed on    *)
(* characters the way the source computes it.  The program is              *)
(* deterministic and single threaded: pc is the position of                *)
(* processrinexfile, and an uncaught Python exception ends the call with   *)
(* pc = "error" and its kind in exc.                                       *)
(***************************************************************************)
EXTENDS Integers, Sequences, FiniteSets, TLC

VARIABLES
    lines,          \* the file: f.read().splitlines(True)
    pc,             \* position of processrinexfile
    exc,            \* kind of the exception that ended the call ("" if none)
    fpos,           \* getrinexversion: number of lines readline() has consumed
    line,           \* getrinexversion: the line last returned by readline()
    rinexversion,   \* the tag returned by getrinexversion
    header,         \* label -> text, built by the header loop
    i,              \* the scanners' line cursor
    rowpersat,      \* v2.1x: lines per satellite, as the scanner computes it
    century,        \* v2.1x: century base of the two-digit years
    headerlines,    \* index of the first line of each decodable epoch
    headerlengths,  \* v2.1x: lines of each epoch header
    obstimes,       \* timestamp of each decodable epoch
    satlists,       \* satellite identifiers of each decodable epoch
    satset,         \* union of the satlists
    systemdata,     \* letter -> array [epoch][satellite row][observable]
    systemsatlists, \* letter -> sorted list of PRNs
    prntoidx,       \* letter -> (PRN -> row)
    obstypes,       \* letter -> list of observable names
    parser,         \* v3: letter -> size in bytes of the letter's struct
    iepoch,         \* decoder: epoch being decoded (0-based)
    isat            \* decoder: satellite of the epoch being decoded (0-based)

vars == <<lines, pc, exc, fpos, line, rinexversion, header, i, rowpersat,
          century, headerlines, headerlengths, obstimes, satlists, satset,
          systemdata, systemsatlists, prntoidx, obstypes, parser, iepoch, isat>>

scanvars == <<i, headerlines, headerlengths, obstimes, satlists>>
snifvars == <<fpos, line, rinexversion>>
hdrvars  == <<header, rowpersat, century>>
decvars  == <<systemdata, systemsatlists, prntoidx, obstypes, parser, iepoch, isat>>

-----------------------------------------------------------------------------
(* Characters and the string primitives of Python the source relies on.    *)

NL == "\n"
SP == " "
Whitespace == {SP, NL}
Digit == <<"0", "1", "2", "3", "4", "5", "6", "7", "8", "9">>
Digits == {Digit[k] : k \in 1..10}
\* str.isalpha() on the characters of the model's files
Alpha == {"A", "B", "C", "D", "E", "F", "G", "H", "I", "J", "K", "L", "M", "N",
          "O", "P", "Q", "R", "S", "T", "U", "V", "W", "X", "Y", "Z",
          "a", "b", "c", "d", "e", "f", "g", "h", "i", "j", "k", "l", "m", "n",
          "o", "p", "q", "r", "s", "t", "u", "v", "w", "x", "y", "z"}

Min(a, b) == IF a < b THEN a ELSE b
Max(a, b) == IF a > b THEN a ELSE b

\* s[a:b] for 0 <= a: the characters at 0-based positions a .. b-1 that exist
Slice(s, a, b) == IF a >= Min(b, Len(s)) THEN <<>> ELSE SubSeq(s, a + 1, Min(b, Len(s)))

\* s[a:]
SliceFrom(s, a) == Slice(s, a, Len(s))

\* s[k] is an IndexError unless k < len(s)
HasIdx(s, k) == k < Len(s)
CharAt(s, k) == s[k + 1]

\* sub in s
Contains(sub, s) == \E k \in 0..(Len(s) - Len(sub)) : SubSeq(s, k + 1, k + Len(sub)) = sub

RECURSIVE LStrip(_)
LStrip(s) == IF s # <<>> /\ Head(s) \in Whitespace THEN LStrip(Tail(s)) ELSE s

RECURSIVE RStrip(_)
RStrip(s) == IF s # <<>> /\ s[Len(s)] \in Whitespace THEN RStrip(SubSeq(s, 1, Len(s) - 1)) ELSE s

\* s.strip()
Strip(s) == LStrip(RStrip(s))

\* the first whitespace-free run of s (s has no leading whitespace)
RECURSIVE Token(_)
Token(s) == IF s = <<>> \/ Head(s) \in Whitespace THEN <<>> ELSE <<Head(s)>> \o Token(Tail(s))

\* s.split(): the whitespace-separated tokens of s
RECURSIVE Split(_)
Split(s) ==
    LET t == LStrip(s)
    IN  IF t = <<>> THEN <<>>
        ELSE <<Token(t)>> \o Split(SubSeq(t, Len(Token(t)) + 1, Len(t)))

\* s.splitlines() on the newline
RECURSIVE SplitLines(_)
SplitLines(s) ==
    IF s = <<>> THEN <<>>
    ELSE IF \E k \in 1..Len(s) : s[k] = NL
         THEN LET k == CHOOSE k \in 1..Len(s) : s[k] = NL /\ \A j \in 1..(k - 1) : s[j] # NL
              IN  <<SubSeq(s, 1, k - 1)>> \o SplitLines(SubSeq(s, k + 1, Len(s)))
         ELSE <<s>>

DigitVal(c) == (CHOOSE k \in 1..10 : Digit[k] = c) - 1

RECURSIVE DigitsVal(_)
DigitsVal(s) == IF s = <<>> THEN 0 ELSE 10 * DigitsVal(SubSeq(s, 1, Len(s) - 1)) + DigitVal(s[Len(s)])

AllDigits(s) == s # <<>> /\ \A k \in 1..Len(s) : s[k] \in Digits

\* int(s): surrounding whitespace is ignored, one sign is accepted, the rest
\* must be decimal digits; anything else is a ValueError
IntOk(s) ==
    LET t == Strip(s)
    IN  IF t # <<>> /\ Head(t) \in {"-", "+"} THEN AllDigits(Tail(t)) ELSE AllDigits(t)

IntVal(s) ==
    LET t == Strip(s)
    IN  IF Head(t) = "-" THEN 0 - DigitsVal(Tail(t))
        ELSE IF Head(t) = "+" THEN DigitsVal(Tail(t))
        ELSE DigitsVal(t)

\* float(s) for plain decimal notation: whitespace ignored, one sign, digits
\* with at most one point and at least one digit
FloatOk(s) ==
    LET t == Strip(s)
        u == IF t # <<>> /\ Head(t) \in {"-", "+"} THEN Tail(t) ELSE t
        pts == {k \in 1..Len(u) : u[k] = "."}
    IN  /\ Cardinality(pts) <= 1
        /\ \A k \in 1..Len(u) : u[k] \in Digits \cup {"."}
        /\ \E k \in 1..Len(u) : u[k] \in Digits

NaN == <<"n", "a", "n">>

\* _converttofloat: the number (kept as its stripped text) or NaN
_converttofloat(numberstr) == IF FloatOk(numberstr) THEN Strip(numberstr) ELSE NaN

Spaces(n) == [k \in 1..n |-> SP]

\* "{:<80}".format(s): pads on the right, never truncates
PadTo(s, n) == IF Len(s) >= n THEN s ELSE s \o Spaces(n - Len(s))

RECURSIVE Concat(_)
Concat(ss) == IF ss = <<>> THEN <<>> ELSE Head(ss) \o Concat(Tail(ss))

SeqToSet(s) == {s[k] : k \in 1..Len(s)}

-----------------------------------------------------------------------------
(* The markers and labels the source looks for.                            *)

VERSION_MARK == <<"R", "I", "N", "E", "X", " ", "V", "E", "R", "S", "I", "O", "N", " ", "/", " ", "T", "Y", "P", "E">>
EOH_MARK == <<"E", "N", "D", " ", "O", "F", " ", "H", "E", "A", "D", "E", "R">>
OBS_LABEL == <<"#", " ", "/", " ", "T", "Y", "P", "E", "S", " ", "O", "F", " ", "O", "B", "S", "E", "R", "V">>
TIME_LABEL == <<"T", "I", "M", "E", " ", "O", "F", " ", "F", "I", "R", "S", "T", " ", "O", "B", "S">>
SYS_LABEL == <<"S", "Y", "S", " ", "/", " ", "#", " ", "/", " ", "O", "B", "S", " ", "T", "Y", "P", "E", "S">>
V21 == <<"2", ".", "1">>
V3 == <<"3", ".">>

-----------------------------------------------------------------------------
(* getrinexversion                                                         *)

\* f.readline() with p lines consumed: the next line, or '' at end of file
Readline(p) == IF p < Len(lines) THEN lines[p + 1] ELSE <<>>
NextPos(p) == Min(p + 1, Len(lines))

\* line 25: the first readline()
SniffOpen ==
    /\ pc = "start"
    /\ line' = Readline(fpos)
    /\ fpos' = NextPos(fpos)
    /\ pc' = "sniff"
    /\ UNCHANGED <<lines, exc, rinexversion, hdrvars, scanvars, satset, decvars>>

\* lines 26 and 31: the loop test fails, the tag is returned
SniffReturn ==
    /\ pc = "sniff"
    /\ Contains(VERSION_MARK, line)
    /\ rinexversion' = Strip(Slice(line, 0, 9))
    /\ pc' = "sniffed"
    /\ UNCHANGED <<lines, exc, fpos, line, hdrvars, scanvars, satset, decvars>>

\* lines 26-30: one iteration that reads the end-of-header marker
SniffRaise ==
    /\ pc = "sniff"
    /\ ~Contains(VERSION_MARK, line)
    /\ Contains(EOH_MARK, Readline(fpos))
    /\ line' = Readline(fpos)
    /\ fpos' = NextPos(fpos)
    /\ pc' = "error"
    /\ exc' = "RinexError: No 'RINEX VERSION / TYPE' found."
    /\ UNCHANGED <<lines, rinexversion, hdrvars, scanvars, satset, decvars>>

\* lines 26-29: one iteration that reads any other line; at end of file
\* readline() returns '' and the iteration changes nothing
SniffNext ==
    /\ pc = "sniff"
    /\ ~Contains(VERSION_MARK, line)
    /\ ~Contains(EOH_MARK, Readline(fpos))
    /\ line' = Readline(fpos)
    /\ fpos' = NextPos(fpos)
    /\ UNCHANGED <<lines, pc, exc, rinexversion, hdrvars, scanvars, satset, decvars>>

-----------------------------------------------------------------------------
(* processrinexfile: the choice of the format generation                   *)

Is21(version) == Contains(V21, version)
Is3(version) == ~Contains(V21, version) /\ Contains(V3, version)

\* line 446
Enter21 ==
    /\ pc = "sniffed"
    /\ Is21(rinexversion)
    /\ pc' = "hdr21"
    /\ UNCHANGED <<lines, exc, snifvars, hdrvars, scanvars, satset, decvars>>

\* line 455
Enter3 ==
    /\ pc = "sniffed"
    /\ Is3(rinexversion)
    /\ pc' = "hdr3"
    /\ UNCHANGED <<lines, exc, snifvars, hdrvars, scanvars, satset, decvars>>

\* line 464
Unsupported ==
    /\ pc = "sniffed"
    /\ ~Is21(rinexversion)
    /\ ~Is3(rinexversion)
    /\ pc' = "error"
    /\ exc' = "RinexError: RINEX v is not supported."
    /\ UNCHANGED <<lines, snifvars, hdrvars, scanvars, satset, decvars>>

-----------------------------------------------------------------------------
(* The header loop shared by _readheader_v21x and _readheader_v3           *)

IsEoh(k) == Contains(EOH_MARK, lines[k])

\* number of lines the loop puts into the dict: those before the first
\* END OF HEADER line, or all of them
HeaderCount ==
    IF \E k \in 1..Len(lines) : IsEoh(k)
    THEN (CHOOSE k \in 1..Len(lines) : IsEoh(k) /\ \A j \in 1..(k - 1) : ~IsEoh(j)) - 1
    ELSE Len(lines)

\* the cursor after the loop: one past the END OF HEADER line (i += 1 before
\* the break), or the index of the last line when the marker never comes
BodyStart ==
    IF \E k \in 1..Len(lines) : IsEoh(k) THEN HeaderCount + 1 ELSE Len(lines) - 1

Label(l) == Strip(Slice(l, 60, 80))

\* the dict after the first n lines: a repeated label's text is joined by "\n"
RECURSIVE HeaderDict(_)
HeaderDict(n) ==
    IF n = 0 THEN <<>>
    ELSE LET h == HeaderDict(n - 1)
             l == lines[n]
         IN  IF Label(l) \in DOMAIN h
             THEN [h EXCEPT ![Label(l)] = @ \o <<NL>> \o Slice(l, 0, 60)]
             ELSE h @@ (Label(l) :> Slice(l, 0, 60))


-----------------------------------------------------------------------------
(* datetime.datetime(...) of an epoch line                                 *)

\* the unsigned text of a plain decimal
Unsigned(s) == LET t == Strip(s) IN IF t # <<>> /\ Head(t) \in {"-", "+"} THEN Tail(t) ELSE t
Negative(s) == LET t == Strip(s) IN t # <<>> /\ Head(t) = "-"

PointAt(u) == IF \E k \in 1..Len(u) : u[k] = "." THEN CHOOSE k \in 1..Len(u) : u[k] = "." ELSE Len(u) + 1
WholeDigits(s) == SubSeq(Unsigned(s), 1, PointAt(Unsigned(s)) - 1)
FracDigits(s) == SubSeq(Unsigned(s), PointAt(Unsigned(s)) + 1, Len(Unsigned(s)))

\* int(float(second)): truncation toward zero
SecondOf(s) == IF Negative(s) THEN 0 - DigitsVal(WholeDigits(s)) ELSE DigitsVal(WholeDigits(s))

\* int(float(second) % 1 * 100000): the first five decimals of the fraction
\* (exact for the fractions that are exact in binary, .0 and .5 among them)
MicrosecondOf(s) ==
    LET f == DigitsVal(SubSeq(FracDigits(s) \o <<"0", "0", "0", "0", "0">>, 1, 5))
    IN  IF Negative(s) /\ f # 0 THEN 100000 - f ELSE f

IsLeap(y) == (y % 4 = 0 /\ y % 100 # 0) \/ y % 400 = 0
DaysIn(y, m) ==
    IF m = 2 THEN (IF IsLeap(y) THEN 29 ELSE 28)
    ELSE IF m \in {4, 6, 9, 11} THEN 30 ELSE 31

\* the arguments datetime.datetime accepts; the others are a ValueError
DateOk(y, mo, d, h, mi, sec, us) ==
    /\ y \in 1..9999 /\ mo \in 1..12 /\ d >= 1 /\ d <= DaysIn(y, mo)
    /\ h \in 0..23 /\ mi \in 0..59 /\ sec \in 0..59 /\ us \in 0..999999

\* the six text fields of an epoch line all convert, and to a valid date
TimeOk(base, f) ==
    /\ \A k \in 1..5 : IntOk(f[k])
    /\ FloatOk(f[6])
    /\ DateOk(base + IntVal(f[1]), IntVal(f[2]), IntVal(f[3]), IntVal(f[4]), IntVal(f[5]),
              SecondOf(f[6]), MicrosecondOf(f[6]))

TimeOf(base, f) ==
    [year |-> base + IntVal(f[1]), month |-> IntVal(f[2]), day |-> IntVal(f[3]),
     hour |-> IntVal(f[4]), minute |-> IntVal(f[5]), second |-> SecondOf(f[6]),
     microsecond |-> MicrosecondOf(f[6])]

-----------------------------------------------------------------------------
(* _readheader_v21x                                                        *)

\* line 95 (and 267-269): header['# / TYPES OF OBSERV'][6:].split()
Observables21(h) == Split(SliceFrom(h[OBS_LABEL], 6))

\* lines per satellite as the source computes them, from the number of observables
RowPerSat(nobstypes) == 1 + nobstypes \div 5

\* line 97
TimeOfFirstObs(h) == Split(h[TIME_LABEL])

\* line 105: int(timeoffirstobs[0][:2] + '00')
CenturyText(h) == Slice(TimeOfFirstObs(h)[1], 0, 2) \o <<"0", "0">>

\* lines 80-109 when nothing is raised
Header21Ok ==
    /\ pc = "hdr21"
    /\ LET h == HeaderDict(HeaderCount)
       IN  /\ OBS_LABEL \in DOMAIN h
           /\ TIME_LABEL \in DOMAIN h
           /\ TimeOfFirstObs(h) # <<>>
           /\ IntOk(CenturyText(h))
           /\ header' = h
           /\ rowpersat' = RowPerSat(Len(Observables21(h)))
           /\ century' = IntVal(CenturyText(h))
    /\ i' = BodyStart
    /\ pc' = "scan21"
    /\ UNCHANGED <<lines, exc, snifvars, headerlines, headerlengths, obstimes, satlists,
                   satset, decvars>>

\* lines 95 and 97 raise KeyError, which lines 449-450 turn into the format error
Header21Missing ==
    /\ pc = "hdr21"
    /\ LET h == HeaderDict(HeaderCount)
       IN  OBS_LABEL \notin DOMAIN h \/ TIME_LABEL \notin DOMAIN h
    /\ pc' = "error"
    /\ exc' = "RinexError: Missing required header"
    /\ UNCHANGED <<lines, snifvars, hdrvars, scanvars, satset, decvars>>

\* line 105 raises on a blank or non-numeric first-observation field; nothing
\* catches it
Header21Malformed ==
    /\ pc = "hdr21"
    /\ LET h == HeaderDict(HeaderCount)
       IN  /\ OBS_LABEL \in DOMAIN h
           /\ TIME_LABEL \in DOMAIN h
           /\ \/ TimeOfFirstObs(h) = <<>> /\ exc' = "IndexError"
              \/ TimeOfFirstObs(h) # <<>> /\ ~IntOk(CenturyText(h)) /\ exc' = "ValueError"
    /\ pc' = "error"
    /\ UNCHANGED <<lines, snifvars, hdrvars, scanvars, satset, decvars>>

\* line 109: re.compile('(\s{2}\d|\s\d{2}){2}').match on lines[i][:6]
PatGroup(a, b, c) == a \in Whitespace /\ c \in Digits /\ (b \in Whitespace \/ b \in Digits)
PatternMatch(s) == Len(s) >= 6 /\ PatGroup(s[1], s[2], s[3]) /\ PatGroup(s[4], s[5], s[6])

\* lines[i]; a negative index counts from the end of the list
Cur == lines[(IF i < 0 THEN i + Len(lines) ELSE i) + 1]
IsEpochStart21 == PatternMatch(Slice(Cur, 0, 6))

\* line 113: int(lines[i][28])
FlagText21 == <<CharAt(Cur, 28)>>
FlagOk21 == HasIdx(Cur, 28) /\ IntOk(FlagText21)
Decodable(flag) == flag \in {0, 1, 6}

\* lines 115-116
TimeFields21 == <<Slice(Cur, 1, 3), Slice(Cur, 4, 6), Slice(Cur, 7, 9), Slice(Cur, 10, 12),
                  Slice(Cur, 13, 15), Slice(Cur, 16, 26)>>

\* line 125
NumSatsText21 == Slice(Cur, 29, 32)

\* line 126
HeaderLength(numsats) == 1 + (numsats - 1) \div 12

\* the slip of moving to a next line after every twelfth identifier, the last
\* one included
ContinuationLines_AfterLast(numsats) == IF numsats > 12 THEN numsats \div 12 ELSE 0

\* lines 128-137: how often i += 1 runs while the identifiers are read
ContinuationLines(numsats) == IF numsats > 12 THEN (numsats - 1) \div 12 ELSE 0

\* lines 128-137: the identifier s of the epoch whose first line is at index start
SatId21(start, s) == Slice(lines[start + (s \div 12) + 1], 32 + (s % 12) * 3, 35 + (s % 12) * 3)
SatList21(start, numsats) == [k \in 1..Max(numsats, 0) |-> SatId21(start, k - 1)]

\* line 139: the cursor after a decodable epoch that started at index start
NextAfterEpoch21(start, numsats, rows) == start + ContinuationLines(numsats) + numsats * rows + 1

\* line 145
SkipText21 == Slice(Cur, 30, 32)

\* the slip of leaving out the record's own line
NextAfterSkip_NoOwnLine(start, skip) == start + skip

\* line 146
NextAfterSkip(start, skip) == start + skip + 1

\* lines 112-139: a decodable epoch
Scan21Epoch ==
    /\ pc = "scan21" /\ i < Len(lines)
    /\ IsEpochStart21
    /\ FlagOk21 /\ Decodable(IntVal(FlagText21))
    /\ TimeOk(century, TimeFields21)
    /\ IntOk(NumSatsText21)
    /\ LET numsats == IntVal(NumSatsText21)
       IN  /\ i + ContinuationLines(numsats) < Len(lines)
           /\ headerlines' = Append(headerlines, i)
           /\ obstimes' = Append(obstimes, TimeOf(century, TimeFields21))
           /\ headerlengths' = Append(headerlengths, HeaderLength(numsats))
           /\ satlists' = Append(satlists, SatList21(i, numsats))
           /\ i' = NextAfterEpoch21(i, numsats, rowpersat)
    /\ UNCHANGED <<lines, pc, exc, snifvars, hdrvars, satset, decvars>>

\* lines 141-146: a comment or event record
Scan21Skip ==
    /\ pc = "scan21" /\ i < Len(lines)
    /\ IsEpochStart21
    /\ FlagOk21 /\ ~Decodable(IntVal(FlagText21))
    /\ IntOk(SkipText21)
    /\ i' = NextAfterSkip(i, IntVal(SkipText21))
    /\ UNCHANGED <<lines, pc, exc, snifvars, hdrvars, headerlines, headerlengths, obstimes,
                   satlists, satset, decvars>>

\* lines 147-149: not the first line of a record
Scan21Other ==
    /\ pc = "scan21" /\ i < Len(lines)
    /\ ~IsEpochStart21
    /\ i' = i + 1
    /\ UNCHANGED <<lines, pc, exc, snifvars, hdrvars, headerlines, headerlengths, obstimes,
                   satlists, satset, decvars>>

\* an exception of lines 113-145 ends the call: the line stops before column
\* 28 or a continuation line is missing (IndexError), or a field does not
\* convert (ValueError)
Scan21Error ==
    /\ pc = "scan21" /\ i < Len(lines)
    /\ IsEpochStart21
    /\ \/ ~HasIdx(Cur, 28) /\ exc' = "IndexError"
       \/ HasIdx(Cur, 28) /\ ~IntOk(FlagText21) /\ exc' = "ValueError"
       \/ FlagOk21 /\ Decodable(IntVal(FlagText21))
          /\ (~TimeOk(century, TimeFields21) \/ ~IntOk(NumSatsText21))
          /\ exc' = "ValueError"
       \/ FlagOk21 /\ Decodable(IntVal(FlagText21))
          /\ TimeOk(century, TimeFields21) /\ IntOk(NumSatsText21)
          /\ i + ContinuationLines(IntVal(NumSatsText21)) >= Len(lines)
          /\ exc' = "IndexError"
       \/ FlagOk21 /\ ~Decodable(IntVal(FlagText21)) /\ ~IntOk(SkipText21)
          /\ exc' = "ValueError"
    /\ pc' = "error"
    /\ UNCHANGED <<lines, snifvars, hdrvars, scanvars, satset, decvars>>

\* lines 111 and 151-154: end of input, the union of the satellite lists
Scan21End ==
    /\ pc = "scan21" /\ i >= Len(lines)
    /\ satset' = UNION {SeqToSet(satlists[k]) : k \in 1..Len(satlists)}
    /\ pc' = "blocks21"
    /\ UNCHANGED <<lines, exc, snifvars, hdrvars, scanvars, decvars>>


-----------------------------------------------------------------------------
(* _readheader_v3                                                          *)

\* lines 160-178: the header loop; no label is looked up here
Header3 ==
    /\ pc = "hdr3"
    /\ header' = HeaderDict(HeaderCount)
    /\ i' = BodyStart
    /\ pc' = "scan3"
    /\ UNCHANGED <<lines, exc, snifvars, rowpersat, century, headerlines, headerlengths,
                   obstimes, satlists, satset, decvars>>

\* line 181
IsEpochStart3 == CharAt(Cur, 0) = ">"

\* line 182: int(lines[i][31])
FlagText3 == <<CharAt(Cur, 31)>>
FlagOk3 == HasIdx(Cur, 31) /\ IntOk(FlagText3)

\* lines 184-185
TimeFields3 == <<Slice(Cur, 2, 6), Slice(Cur, 7, 9), Slice(Cur, 10, 12), Slice(Cur, 13, 15),
                 Slice(Cur, 16, 18), Slice(Cur, 19, 30)>>

\* line 194
NumSatsText3 == Slice(Cur, 33, 35)

\* lines 196-198: lines[i+1+j][:3] for j in range(numsats)
SatList3(start, numsats) == [k \in 1..Max(numsats, 0) |-> Slice(lines[start + k + 1], 0, 3)]

\* line 200
NextAfterEpoch3(start, numsats) == start + numsats + 1

\* line 207
SkipText3 == Slice(Cur, 30, 32)

\* lines 181-201: a decodable epoch
Scan3Epoch ==
    /\ pc = "scan3" /\ i < Len(lines)
    /\ HasIdx(Cur, 0) /\ IsEpochStart3
    /\ FlagOk3 /\ Decodable(IntVal(FlagText3))
    /\ TimeOk(0, TimeFields3)
    /\ IntOk(NumSatsText3)
    /\ LET numsats == IntVal(NumSatsText3)
       IN  /\ i + numsats < Len(lines)
           /\ headerlines' = Append(headerlines, i)
           /\ obstimes' = Append(obstimes, TimeOf(0, TimeFields3))
           /\ satlists' = Append(satlists, SatList3(i, numsats))
           /\ i' = NextAfterEpoch3(i, numsats)
    /\ UNCHANGED <<lines, pc, exc, snifvars, hdrvars, headerlengths, satset, decvars>>

\* lines 203-208: a comment or event record
Scan3Skip ==
    /\ pc = "scan3" /\ i < Len(lines)
    /\ HasIdx(Cur, 0) /\ IsEpochStart3
    /\ FlagOk3 /\ ~Decodable(IntVal(FlagText3))
    /\ IntOk(SkipText3)
    /\ i' = NextAfterSkip(i, IntVal(SkipText3))
    /\ UNCHANGED <<lines, pc, exc, snifvars, hdrvars, headerlines, headerlengths, obstimes,
                   satlists, satset, decvars>>

\* lines 209-211: not the first line of a record
Scan3Other ==
    /\ pc = "scan3" /\ i < Len(lines)
    /\ HasIdx(Cur, 0) /\ ~IsEpochStart3
    /\ i' = i + 1
    /\ UNCHANGED <<lines, pc, exc, snifvars, hdrvars, headerlines, headerlengths, obstimes,
                   satlists, satset, decvars>>

\* an exception of lines 181-207 ends the call
Scan3Error ==
    /\ pc = "scan3" /\ i < Len(lines)
    /\ \/ ~HasIdx(Cur, 0) /\ exc' = "IndexError"
       \/ HasIdx(Cur, 0) /\ IsEpochStart3 /\ ~HasIdx(Cur, 31) /\ exc' = "IndexError"
       \/ HasIdx(Cur, 0) /\ IsEpochStart3 /\ HasIdx(Cur, 31) /\ ~IntOk(FlagText3)
          /\ exc' = "ValueError"
       \/ HasIdx(Cur, 0) /\ IsEpochStart3 /\ FlagOk3 /\ Decodable(IntVal(FlagText3))
          /\ (~TimeOk(0, TimeFields3) \/ ~IntOk(NumSatsText3))
          /\ exc' = "ValueError"
       \/ HasIdx(Cur, 0) /\ IsEpochStart3 /\ FlagOk3 /\ Decodable(IntVal(FlagText3))
          /\ TimeOk(0, TimeFields3) /\ IntOk(NumSatsText3)
          /\ i + IntVal(NumSatsText3) >= Len(lines)
          /\ exc' = "IndexError"
       \/ HasIdx(Cur, 0) /\ IsEpochStart3 /\ FlagOk3 /\ ~Decodable(IntVal(FlagText3))
          /\ ~IntOk(SkipText3)
          /\ exc' = "ValueError"
    /\ pc' = "error"
    /\ UNCHANGED <<lines, snifvars, hdrvars, scanvars, satset, decvars>>

\* lines 180 and 213-216: end of input, the union of the satellite lists
Scan3End ==
    /\ pc = "scan3" /\ i >= Len(lines)
    /\ satset' = UNION {SeqToSet(satlists[k]) : k \in 1..Len(satlists)}
    /\ pc' = "blocks3"
    /\ UNCHANGED <<lines, exc, snifvars, hdrvars, scanvars, decvars>>


-----------------------------------------------------------------------------
(* What _readblocks_v21 and _readblocks_v3 share                           *)

\* int(sat[1:])
PrnText(sat) == SliceFrom(sat, 1)
Prn(sat) == IntVal(PrnText(sat))

\* the satellites of one system letter
SatsOf(letter) == {sat \in satset : sat # <<>> /\ sat[1] = letter}

\* systemsatlists[letter] after the appends and the sort(): one entry per
\* identifier of the set, in ascending order of PRN
RECURSIVE SortedPrns(_)
SortedPrns(S) ==
    IF S = {} THEN <<>>
    ELSE LET m == CHOOSE m \in S : \A x \in S : Prn(m) <= Prn(x)
         IN  <<Prn(m)>> \o SortedPrns(S \ {m})

\* {prn: idx for idx, prn in enumerate(l)}: a repeated PRN keeps its last index
PrnToIdx(l) ==
    [p \in SeqToSet(l) |->
        (CHOOSE k \in 1..Len(l) : l[k] = p /\ \A j \in (k + 1)..Len(l) : l[j] # p) - 1]

\* np.nan * np.zeros((e, n, o)), with its shape
NanArray(e, n, o) ==
    [shape |-> <<e, n, o>>,
     val |-> [x \in 1..e |-> [y \in 1..n |-> [z \in 1..o |-> NaN]]]]

\* struct.Struct(fmt).size
StructSize21(nobstypes) == 16 * nobstypes
StructSize3(nobstypes) == 3 + 16 * Max(nobstypes - 1, 0) + 14

\* the 14-character fields unpack_from cuts out of the record, converted
Fields(datastring, n, offset) ==
    [k \in 1..n |-> _converttofloat(Slice(datastring, offset + 16 * (k - 1), offset + 16 * (k - 1) + 14))]

\* lines[a:b] of a list
ListSlice(a, b) == IF a >= Min(b, Len(lines)) THEN <<>> ELSE SubSeq(lines, a + 1, Min(b, Len(lines)))

\* a[iepoch, row, :] = data
SetRow(arr, e, row, data) == [arr EXCEPT !.val[e + 1][row + 1] = data]

-----------------------------------------------------------------------------
(* _readblocks_v21                                                         *)

\* line 272: the letters of ''.join(satset)
SystemLetters21 == {c \in UNION {SeqToSet(sat) : sat \in satset} : c \in Alpha}

\* lines 279-280 raise for an identifier that is empty, has no letter in front
\* or has no number behind it
BadSat21(sat) ==
    \/ sat = <<>>
    \/ sat # <<>> /\ sat[1] \notin SystemLetters21
    \/ sat # <<>> /\ sat[1] \in SystemLetters21 /\ ~IntOk(PrnText(sat))

SatError(sat, letters) ==
    IF sat = <<>> THEN "IndexError"
    ELSE IF sat[1] \notin letters THEN "KeyError" ELSE "ValueError"

\* lines 267-291
Blocks21Setup ==
    /\ pc = "blocks21"
    /\ \A sat \in satset : ~BadSat21(sat)
    /\ LET observables == Observables21(header)
           nobstypes == Len(observables)
           nepochs == Len(headerlines)
       IN  /\ systemsatlists' = [l \in SystemLetters21 |-> SortedPrns(SatsOf(l))]
           /\ systemdata' = [l \in SystemLetters21 |->
                                NanArray(nepochs, Len(SortedPrns(SatsOf(l))), nobstypes)]
           /\ prntoidx' = [l \in SystemLetters21 |-> PrnToIdx(SortedPrns(SatsOf(l)))]
           /\ obstypes' = [l \in SystemLetters21 |-> observables]
    /\ iepoch' = 0 /\ isat' = 0
    /\ pc' = "decode21"
    /\ UNCHANGED <<lines, exc, snifvars, hdrvars, scanvars, satset, parser>>

\* lines 279-280 raise; the set is walked in no particular order, so any of
\* the bad identifiers may be the one that raises
Blocks21SetupError ==
    /\ pc = "blocks21"
    /\ \E sat \in satset : BadSat21(sat) /\ exc' = SatError(sat, SystemLetters21)
    /\ pc' = "error"
    /\ UNCHANGED <<lines, snifvars, hdrvars, scanvars, satset, decvars>>

\* lines 295-296: the lines the decoder takes for satellite s of epoch e
\* line 269: the decoder computes the lines per satellite as the scanner did
DecoderRows == RowPerSat(Len(Observables21(header)))
RecordFirst21(e, s) == headerlines[e + 1] + headerlengths[e + 1] + DecoderRows * s
RecordLines21(e, s) == ListSlice(RecordFirst21(e, s), RecordFirst21(e, s) + DecoderRows)

PadLines(ls) == [k \in 1..Len(ls) |-> PadTo(RStrip(ls[k]), 80)]

DataString21(e, s) == Concat(PadLines(RecordLines21(e, s)))

CurSat == satlists[iepoch + 1][isat + 1]

\* lines 294-303: one satellite record
Decode21Record ==
    /\ pc = "decode21" /\ iepoch < Len(headerlines) /\ isat < Len(satlists[iepoch + 1])
    /\ LET nobstypes == Len(Observables21(header))
           datastring == DataString21(iepoch, isat)
       IN  /\ Len(datastring) >= StructSize21(nobstypes)
           /\ systemdata' = [systemdata EXCEPT ![CurSat[1]] =
                   SetRow(@, iepoch, prntoidx[CurSat[1]][Prn(CurSat)], Fields(datastring, nobstypes, 0))]
    /\ isat' = isat + 1
    /\ UNCHANGED <<lines, pc, exc, snifvars, hdrvars, scanvars, satset, systemsatlists,
                   prntoidx, obstypes, parser, iepoch>>

\* line 298: unpack_from raises struct.error on a buffer shorter than the format
Decode21Error ==
    /\ pc = "decode21" /\ iepoch < Len(headerlines) /\ isat < Len(satlists[iepoch + 1])
    /\ Len(DataString21(iepoch, isat)) < StructSize21(Len(Observables21(header)))
    /\ pc' = "error"
    /\ exc' = "struct.error"
    /\ UNCHANGED <<lines, snifvars, hdrvars, scanvars, satset, decvars>>

\* line 293: the next epoch
Decode21NextEpoch ==
    /\ pc = "decode21" /\ iepoch < Len(headerlines) /\ isat >= Len(satlists[iepoch + 1])
    /\ iepoch' = iepoch + 1 /\ isat' = 0
    /\ UNCHANGED <<lines, pc, exc, snifvars, hdrvars, scanvars, satset, systemdata,
                   systemsatlists, prntoidx, obstypes, parser>>

\* line 306: the observables with a number somewhere in the letter's array
KeptObservables(arr) ==
    {o \in 1..arr.shape[3] :
        \E e \in 1..arr.shape[1] : \E r \in 1..arr.shape[2] : arr.val[e][r][o] # NaN}

\* the members of an index set, ascending
RECURSIVE Ascending(_)
Ascending(S) ==
    IF S = {} THEN <<>>
    ELSE LET m == CHOOSE m \in S : \A x \in S : m <= x
         IN  <<m>> \o Ascending(S \ {m})

\* line 307: a[:, :, kept]
PruneArray(arr, kept) ==
    [shape |-> <<arr.shape[1], arr.shape[2], Len(kept)>>,
     val |-> [e \in 1..arr.shape[1] |-> [r \in 1..arr.shape[2] |->
                [o \in 1..Len(kept) |-> arr.val[e][r][kept[o]]]]]]

\* lines 305-310 and 466-469: column pruning, then the results are returned
Prune21 ==
    /\ pc = "decode21" /\ iepoch >= Len(headerlines)
    /\ systemdata' = [l \in DOMAIN systemdata |->
                         PruneArray(systemdata[l], Ascending(KeptObservables(systemdata[l])))]
    /\ obstypes' = [l \in DOMAIN obstypes |->
                       LET kept == Ascending(KeptObservables(systemdata[l]))
                       IN  [o \in 1..Len(kept) |-> obstypes[l][kept[o]]]]
    /\ pc' = "done"
    /\ UNCHANGED <<lines, exc, snifvars, hdrvars, scanvars, satset, systemsatlists,
                   prntoidx, parser, iepoch, isat>>

-----------------------------------------------------------------------------
(* _readblocks_v3                                                          *)

\* line 355: header['SYS / # / OBS TYPES'].splitlines()
SysLines(h) == SplitLines(h[SYS_LABEL])

\* lines 355-361 raise on an empty line (IndexError) or on a continuation line
\* that comes first (KeyError on the letter '')
SysLinesOk(ls) == (\A k \in 1..Len(ls) : ls[k] # <<>>) /\ (ls # <<>> => ls[1][1] # SP)

\* lines 355-361: the observables of each declared letter, continuation lines
\* extending the letter before them; a letter declared again starts afresh
RECURSIVE ObsTypes3(_)
ObsTypes3(ls) ==
    IF ls = <<>> THEN <<>>
    ELSE LET before == ObsTypes3(SubSeq(ls, 1, Len(ls) - 1))
             l == ls[Len(ls)]
             starts == {k \in 1..Len(ls) : ls[k][1] # SP}
             letter == ls[CHOOSE k \in starts : \A j \in starts : j <= k][1]
         IN  IF l[1] # SP
             THEN IF letter \in DOMAIN before
                  THEN [before EXCEPT ![letter] = Split(SliceFrom(l, 6))]
                  ELSE before @@ (letter :> Split(SliceFrom(l, 6)))
             ELSE [before EXCEPT ![letter] = @ \o Split(SliceFrom(l, 6))]

BadSat3(sat, letters) ==
    \/ sat = <<>>
    \/ sat # <<>> /\ sat[1] \notin letters
    \/ sat # <<>> /\ sat[1] \in letters /\ ~IntOk(PrnText(sat))

\* lines 351-388
Blocks3Setup ==
    /\ pc = "blocks3"
    /\ SYS_LABEL \in DOMAIN header
    /\ SysLinesOk(SysLines(header))
    /\ LET types == ObsTypes3(SysLines(header))
           seen == {l \in DOMAIN types : SatsOf(l) # {}}
           nepochs == Len(headerlines)
       IN  /\ \A sat \in satset : ~BadSat3(sat, DOMAIN types)
           /\ obstypes' = types
           /\ systemsatlists' = [l \in seen |-> SortedPrns(SatsOf(l))]
           /\ systemdata' = [l \in seen |->
                                NanArray(nepochs, Len(SortedPrns(SatsOf(l))), Len(types[l]))]
           /\ prntoidx' = [l \in seen |-> PrnToIdx(SortedPrns(SatsOf(l)))]
           /\ parser' = [l \in seen |-> StructSize3(Len(types[l]))]
    /\ iepoch' = 0 /\ isat' = 0
    /\ pc' = "decode3"
    /\ UNCHANGED <<lines, exc, snifvars, hdrvars, scanvars, satset>>

\* line 355 raises KeyError for a header without the label, and nothing in
\* processrinexfile catches it: lines 456-459 guard _readheader_v3 only
Blocks3Missing ==
    /\ pc = "blocks3"
    /\ SYS_LABEL \notin DOMAIN header
    /\ pc' = "error"
    /\ exc' = "KeyError"
    /\ UNCHANGED <<lines, snifvars, hdrvars, scanvars, satset, decvars>>

\* lines 356-371 raise
Blocks3SetupError ==
    /\ pc = "blocks3"
    /\ SYS_LABEL \in DOMAIN header
    /\ \/ /\ ~SysLinesOk(SysLines(header))
          /\ exc' = IF \E k \in 1..Len(SysLines(header)) : SysLines(header)[k] = <<>>
                    THEN "IndexError" ELSE "KeyError"
       \/ /\ SysLinesOk(SysLines(header))
          /\ \E sat \in satset :
                /\ BadSat3(sat, DOMAIN ObsTypes3(SysLines(header)))
                /\ exc' = SatError(sat, DOMAIN ObsTypes3(SysLines(header)))
    /\ pc' = "error"
    /\ UNCHANGED <<lines, snifvars, hdrvars, scanvars, satset, decvars>>

\* line 392
DataString3(e, s) == lines[headerlines[e + 1] + 1 + s + 1]

\* lines 391-399: one satellite record
Decode3Record ==
    /\ pc = "decode3" /\ iepoch < Len(headerlines) /\ isat < Len(satlists[iepoch + 1])
    /\ LET nobstypes == Len(obstypes[CurSat[1]])
           datastring == DataString3(iepoch, isat)
       IN  /\ Len(datastring) >= parser[CurSat[1]]
           /\ nobstypes >= 1
           /\ systemdata' = [systemdata EXCEPT ![CurSat[1]] =
                   SetRow(@, iepoch, prntoidx[CurSat[1]][Prn(CurSat)], Fields(datastring, nobstypes, 3))]
    /\ isat' = isat + 1
    /\ UNCHANGED <<lines, pc, exc, snifvars, hdrvars, scanvars, satset, systemsatlists,
                   prntoidx, obstypes, parser, iepoch>>

\* line 397: unpack_from raises struct.error on a line shorter than the
\* format; line 399: one unpacked field does not fit a row without observables
Decode3Error ==
    /\ pc = "decode3" /\ iepoch < Len(headerlines) /\ isat < Len(satlists[iepoch + 1])
    /\ \/ /\ Len(DataString3(iepoch, isat)) < parser[CurSat[1]]
          /\ exc' = "struct.error"
       \/ /\ Len(DataString3(iepoch, isat)) >= parser[CurSat[1]]
          /\ Len(obstypes[CurSat[1]]) = 0
          /\ exc' = "ValueError"
    /\ pc' = "error"
    /\ UNCHANGED <<lines, snifvars, hdrvars, scanvars, satset, decvars>>

\* line 390: the next epoch
Decode3NextEpoch ==
    /\ pc = "decode3" /\ iepoch < Len(headerlines) /\ isat >= Len(satlists[iepoch + 1])
    /\ iepoch' = iepoch + 1 /\ isat' = 0
    /\ UNCHANGED <<lines, pc, exc, snifvars, hdrvars, scanvars, satset, systemdata,
                   systemsatlists, prntoidx, obstypes, parser>>

\* lines 401 and 466-469: the results are returned
Return3 ==
    /\ pc = "decode3" /\ iepoch >= Len(headerlines)
    /\ pc' = "done"
    /\ UNCHANGED <<lines, exc, snifvars, hdrvars, scanvars, satset, decvars>>


-----------------------------------------------------------------------------
(* The files the model reads: RINEX text written column by column, from    *)
(* well-formed records and from the malformed ones the code has a path for.*)

MaxFrontLines == 2
MaxBlocks == 2

\* s right-justified in n columns, as the I and F formats of RINEX write it
RJ(s, n) == Spaces(n - Len(s)) \o s
D2(n) == <<Digit[(n \div 10) + 1], Digit[(n % 10) + 1]>>

HdrLine(value, label) == PadTo(value, 60) \o label \o <<NL>>
VersionLine(tag) == HdrLine(RJ(tag, 9), VERSION_MARK)
EohLine == HdrLine(<<>>, EOH_MARK)
JunkLine == <<"j", "u", "n", "k", NL>>
BothLine == HdrLine(RJ(<<"2", ".", "1", "1">>, 9), VERSION_MARK \o <<SP>> \o EOH_MARK)

Tags == {<<"2", ".", "1", "0">>, <<"2", ".", "1", "1">>, <<"2", ".", "1", "2">>,
         <<"3", ".", "0", "2">>, <<"1", ".", "0">>, <<"1", "3", ".", "0">>,
         <<"2", ".", "2", "0">>, <<"4">>}

SeqsUpTo(S, n) == UNION {[1..k -> S] : k \in 0..n}

FrontLines == {VersionLine(t) : t \in Tags} \cup {EohLine, JunkLine, BothLine}
FrontFiles == SeqsUpTo(FrontLines, MaxFrontLines)

\* ---- version 2.1x ----
TimeText21 == <<" ", "0", "5", " ", " ", "3", " ", "2", "4", " ", "1", "3", " ", "1", "0", " ", "3", "6", ".", "0", "0", "0", "0", "0", "0", "0">>
BadTimeText21 == <<" ", "0", "5", " ", "1", "3", " ", "2", "4", " ", "1", "3", " ", "1", "0", " ", "3", "6", ".", "0", "0", "0", "0", "0", "0", "0">>
FirstObsText == <<" ", " ", "2", "0", "0", "5", " ", " ", " ", " ", " ", "3", " ", " ", " ", " ", "2", "4">>

ObsName(k) == <<"L", Digit[k + 1]>>
ObsLine(n) ==
    HdrLine(RJ(<<Digit[n + 1]>>, 6) \o Concat([k \in 1..n |-> Spaces(4) \o ObsName(k)]), OBS_LABEL)
TimeLine == HdrLine(FirstObsText, TIME_LABEL)

Header21(n) == <<VersionLine(<<"2", ".", "1", "1">>), ObsLine(n), TimeLine, EohLine>>

\* lines a RINEX 2 writer needs for n observables, five to a line
FormatRows(n) == (n + 4) \div 5

\* one observation: F14.3 and the two flag columns
Value(k) == RJ(<<Digit[k + 1], ".", "5", "0", "0">>, 14) \o <<SP, SP>>
Cell(kind, k) ==
    IF kind = "blank" /\ k = 1 THEN Spaces(16)
    ELSE IF kind = "bad" /\ k = 1 THEN RJ(<<"x", ".", "y">>, 14) \o <<SP, SP>>
    ELSE Value(k)

\* the data lines of one satellite with n observables; "short" ends the
\* record before its last observation, as writers that drop trailing blanks do
DataLines21(n, kind) ==
    LET m == IF kind = "short" THEN n - 1 ELSE n
    IN  [r \in 1..FormatRows(n) |->
            Concat([j \in 1..Max(0, Min(5, m - 5 * (r - 1))) |-> Cell(kind, 5 * (r - 1) + j)]) \o <<NL>>]

\* the header lines of an epoch: twelve identifiers to a line
EpochHead21(time, flag, count, ids) ==
    [r \in 1..Max(1, (Len(ids) + 11) \div 12) |->
        (IF r = 1 THEN time \o <<SP, SP, flag>> \o count ELSE Spaces(32))
        \o Concat(SubSeq(ids, 12 * (r - 1) + 1, Min(12 * r, Len(ids)))) \o <<NL>>]

Epoch21(n, flag, ids, kinds) ==
    EpochHead21(TimeText21, flag, RJ(IF Len(ids) >= 10 THEN D2(Len(ids)) ELSE <<Digit[Len(ids) + 1]>>, 3), ids)
    \o Concat([k \in 1..Len(ids) |-> DataLines21(n, kinds[k])])

Event21(flag, count, following) ==
    <<TimeText21 \o <<SP, SP, flag>> \o count \o <<NL>>>> \o [k \in 1..following |-> JunkLine]

G(n) == <<"G">> \o D2(n)

CoreBlocks21(n) ==
    { Epoch21(n, "0", <<G(1)>>, <<"full">>),
      Epoch21(n, "1", <<<<"G", " ", "1">>, <<"R", "0", "5">>>>, <<"short", "full">>),
      Epoch21(n, "6", <<G(2)>>, <<"blank">>),
      Event21("4", <<SP, SP, "2">>, 2),
      Event21("2", <<SP, SP, "0">>, 0),
      <<JunkLine>> }

\* records the code has an error path or a known limitation for
OddBlocks21(n) ==
    { Epoch21(n, "0", <<G(3)>>, <<"bad">>),
      Event21("4", <<SP, "-", "1">>, 0),
      Event21("x", <<SP, SP, "1">>, 0),
      Event21("0", <<SP, SP, "x">>, 0),
      Event21("5", <<SP, SP, SP>>, 0),
      EpochHead21(BadTimeText21, "0", <<SP, SP, "0">>, <<>>),
      <<SubSeq(TimeText21, 1, 26) \o <<NL>>>>,
      Epoch21(n, "0", <<<<SP, "0", "7">>>>, <<"full">>),
      Epoch21(n, "0", <<<<"G", "x", "x">>>>, <<"full">>),
      EpochHead21(TimeText21, "0", <<SP, SP, "1">>, <<G(4)>>),
      EpochHead21(TimeText21, "0", <<SP, "1", "3">>, <<G(1), G(2)>>) }

BigCounts == {12, 13, 24, 25}
BigBlocks21(n) == {Epoch21(n, "0", [k \in 1..c |-> G(k)], [k \in 1..c |-> "full"]) : c \in BigCounts}

ObsCounts == {1, 5, 6}

Files21 ==
    UNION {
        {Header21(n) \o Concat(bs) : bs \in SeqsUpTo(CoreBlocks21(n), MaxBlocks)}
        \cup {Header21(n) \o c \o o : c \in CoreBlocks21(n) \cup {<<>>}, o \in OddBlocks21(n)}
        \cup {Header21(n) \o b \o c : b \in BigBlocks21(n), c \in CoreBlocks21(n) \cup {<<>>}}
        \cup {Header21(n) \o c \o b : b \in BigBlocks21(n), c \in CoreBlocks21(n)}
        : n \in ObsCounts}

\* headers that lack a required label, lack the end-of-header line or carry a
\* blank or non-numeric first observation
BrokenHeaders21 ==
    { <<VersionLine(<<"2", ".", "1", "1">>), TimeLine, EohLine>>,
      <<VersionLine(<<"2", ".", "1", "1">>), ObsLine(1), EohLine>>,
      <<VersionLine(<<"2", ".", "1", "1">>), EohLine>>,
      <<VersionLine(<<"2", ".", "1", "1">>), ObsLine(1), TimeLine>>,
      <<VersionLine(<<"2", ".", "1", "1">>), ObsLine(1), HdrLine(<<>>, TIME_LABEL), EohLine>>,
      <<VersionLine(<<"2", ".", "1", "1">>), ObsLine(1), HdrLine(<<SP, "x", "y">>, TIME_LABEL), EohLine>> }

FilesBroken21 == {h \o c : h \in BrokenHeaders21, c \in CoreBlocks21(1)}


\* ---- version 3 ----
TimeText3 == <<">", " ", "2", "0", "0", "5", " ", "0", "3", " ", "2", "4", " ", "1", "3", " ", "1", "0", " ", "3", "6", ".", "5", "0", "0", "0", "0", "0", "0">>

ObsName3(k) == <<"C", Digit[k + 1], "C">>

\* "G    2 C1C C2C": the letter, the count (I3 after two blanks), the names
SysLine(letter, n) ==
    HdrLine(<<letter>> \o RJ(<<Digit[n + 1]>>, 5) \o Concat([k \in 1..n |-> <<SP>> \o ObsName3(k)]), SYS_LABEL)

\* a continuation line: blank where the letter and the count stand
SysContinuation(k) == HdrLine(Spaces(6) \o <<SP>> \o ObsName3(k), SYS_LABEL)

Version3 == VersionLine(<<"3", ".", "0", "2">>)

\* G with two observables (one of them on a continuation line in the second
\* header), R with one
Headers3 ==
    { <<Version3, SysLine("G", 2), SysLine("R", 1), EohLine>>,
      <<Version3, SysLine("G", 1), SysContinuation(2), SysLine("R", 1), EohLine>> }

BrokenHeaders3 ==
    { <<Version3, EohLine>>,
      <<Version3, SysContinuation(1), EohLine>>,
      <<Version3, SysLine("G", 0), EohLine>> }

NumObs3(letter) == IF letter = "G" THEN 2 ELSE 1

\* one satellite record: the identifier, then F14.3 and two flag columns per
\* observable; "short" ends the line before the last observation
DataLine3(sat, kind) ==
    LET n == NumObs3(sat[1])
        m == IF kind = "short" THEN n - 1 ELSE n
    IN  sat \o Concat([k \in 1..m |-> Cell(kind, k)]) \o <<NL>>

\* "> 2005 03 24 13 10 36.5000000  0  2": flag in column 31, count in 32-34
EpochLine3(flag, count) == TimeText3 \o <<SP, SP, flag>> \o count \o <<NL>>

Epoch3(flag, sats, kinds) ==
    <<EpochLine3(flag, RJ(<<Digit[Len(sats) + 1]>>, 3))>>
    \o [k \in 1..Len(sats) |-> DataLine3(sats[k], kinds[k])]

Event3(flag, count, following) ==
    <<EpochLine3(flag, count)>> \o [k \in 1..following |-> JunkLine]

CoreBlocks3 ==
    { Epoch3("0", <<G(1)>>, <<"full">>),
      Epoch3("1", <<G(1), <<"R", "0", "5">>>>, <<"blank", "full">>),
      Epoch3("6", <<G(2), <<"R", "0", "5">>>>, <<"bad", "full">>),
      Event3("4", <<SP, SP, "2">>, 2),
      Event3("4", <<SP, SP, "4">>, 4),
      Event3("2", <<SP, SP, "0">>, 0),
      <<JunkLine>> }

OddBlocks3 ==
    { Epoch3("0", <<G(3)>>, <<"short">>),
      Epoch3("0", <<<<"E", "1", "1">>>>, <<"full">>),
      Epoch3("0", <<<<"G", "x", "x">>>>, <<"full">>),
      Event3("x", <<SP, SP, "1">>, 0),
      Event3("0", <<SP, SP, "x">>, 0),
      <<SubSeq(TimeText3, 1, 29) \o <<NL>>>>,
      <<TimeText3 \o <<SP, "x", "4", SP, SP, "1", NL>>>>,
      <<EpochLine3("0", <<SP, SP, "2">>), DataLine3(G(1), "full")>>,
      <<SubSeq(TimeText3, 1, 6) \o <<"1", "3">> \o SubSeq(TimeText3, 9, 29) \o <<SP, SP, "0", SP, SP, "0", NL>>>> }

Files3 ==
    UNION {
        {h \o Concat(bs) : bs \in SeqsUpTo(CoreBlocks3, MaxBlocks)}
        \cup {h \o c \o o : c \in CoreBlocks3 \cup {<<>>}, o \in OddBlocks3}
        : h \in Headers3}

FilesBroken3 == {h \o c : h \in BrokenHeaders3, c \in {Epoch3("0", <<G(1)>>, <<"full">>), <<JunkLine>>}}

Files == FrontFiles \cup Files21 \cup FilesBroken21 \cup Files3 \cup FilesBroken3

-----------------------------------------------------------------------------
(* processrinexfile(filename) on each file                                 *)

Init ==
    /\ lines \in Files
    /\ pc = "start"
    /\ exc = ""
    /\ fpos = 0
    /\ line = <<>>
    /\ rinexversion = <<>>
    /\ header = <<>>
    /\ i = 0
    /\ rowpersat = 0
    /\ century = 0
    /\ headerlines = <<>>
    /\ headerlengths = <<>>
    /\ obstimes = <<>>
    /\ satlists = <<>>
    /\ satset = {}
    /\ systemdata = <<>>
    /\ systemsatlists = <<>>
    /\ prntoidx = <<>>
    /\ obstypes = <<>>
    /\ parser = <<>>
    /\ iepoch = 0
    /\ isat = 0

Next ==
    \/ SniffOpen \/ SniffReturn \/ SniffRaise \/ SniffNext
    \/ Enter21 \/ Enter3 \/ Unsupported
    \/ Header21Ok \/ Header21Missing \/ Header21Malformed
    \/ Scan21Epoch \/ Scan21Skip \/ Scan21Other \/ Scan21Error \/ Scan21End
    \/ Blocks21Setup \/ Blocks21SetupError
    \/ Decode21Record \/ Decode21Error \/ Decode21NextEpoch \/ Prune21
    \/ Header3
    \/ Scan3Epoch \/ Scan3Skip \/ Scan3Other \/ Scan3Error \/ Scan3End
    \/ Blocks3Setup \/ Blocks3Missing \/ Blocks3SetupError
    \/ Decode3Record \/ Decode3Error \/ Decode3NextEpoch \/ Return3

Spec == Init /\ [][Next]_vars


\* the interpreter keeps running the one thread there is
FairSpec == Spec /\ WF_vars(Next)

-----------------------------------------------------------------------------
(* Properties                                                              *)

Last(q) == q[Len(q)]

\* every version line of the file comes after an END OF HEADER line: no
\* version marker before the first end-of-header marker, or no marker at all
NoVersionBeforeEoh ==
    \A k \in 1..Len(lines) :
        Contains(VERSION_MARK, lines[k]) => \E j \in 1..(k - 1) : IsEoh(j)

\* C1: when no version line precedes the first END OF HEADER line, or the
\* file ends without either marker, getrinexversion never returns a tag and
\* the call eventually ends with the format error.
C1_SnifferRaises ==
    /\ [](NoVersionBeforeEoh => pc # "sniffed")
    /\ (NoVersionBeforeEoh => <>(pc = "error"))

\* the tags the decoder is meant to accept: 2.10, 2.11 and 3.x
Supported(tag) ==
    \/ tag \in {<<"2", ".", "1", "0">>, <<"2", ".", "1", "1">>}
    \/ Len(tag) >= 2 /\ tag[1] = "3" /\ tag[2] = "."

\* C2: once the sniffer has returned a tag that is none of 2.10, 2.11 and
\* 3.x, the call has raised the unsupported-version error and neither header
\* reader was entered.
C2_UnsupportedRaises ==
    (pc \notin {"start", "sniff", "sniffed"} /\ rinexversion # <<>> /\ ~Supported(rinexversion))
        => (pc = "error" /\ exc = "RinexError: RINEX v is not supported.")

\* a required label of the file's generation is absent from the header
MissingRequired ==
    LET h == HeaderDict(HeaderCount)
    IN  \/ Is21(rinexversion) /\ (OBS_LABEL \notin DOMAIN h \/ TIME_LABEL \notin DOMAIN h)
        \/ Is3(rinexversion) /\ SYS_LABEL \notin DOMAIN h

\* C3: a file of either generation that lacks a required header label ends
\* with the format error 'Missing required header', with no other exception
\* and with no result.
C3_MissingHeaderIsFormatError ==
    (pc \in {"error", "done"} /\ Supported(rinexversion) /\ MissingRequired)
        => (pc = "error" /\ exc = "RinexError: Missing required header")

\* the v2.1x scanner is on a record whose flag is a digit outside {0, 1, 6}
\* and whose skip field holds an integer
OnSkipRecord21 ==
    /\ pc = "scan21" /\ i >= 0 /\ i < Len(lines)
    /\ IsEpochStart21
    /\ FlagOk21 /\ ~Decodable(IntVal(FlagText21))
    /\ IntOk(SkipText21)

\* C4: on a v2.1x record whose status flag is not 0, 1 or 6 the scanner
\* appends nothing to headerlines, headerlengths, obstimes and satlists, and
\* the line it examines next is i + 1 + k, k being the count in the record's
\* skip field.
C4_SkipRecord21 ==
    [][OnSkipRecord21 =>
          /\ headerlines' = headerlines /\ headerlengths' = headerlengths
          /\ obstimes' = obstimes /\ satlists' = satlists
          /\ pc' = "scan21"
          /\ i' = i + 1 + IntVal(SkipText21)]_vars

\* C4 witness: the scanner has passed a flag-4 record that declares two
\* lines and stands on the third line after it, with no epoch recorded
C4_Witness ==
    /\ pc = "scan21" /\ headerlines = <<>>
    /\ i = BodyStart + 3
    /\ LET l == lines[BodyStart + 1]
       IN  /\ PatternMatch(Slice(l, 0, 6))
           /\ CharAt(l, 28) = "4"
           /\ IntVal(Slice(l, 30, 32)) = 2

\* the v3 scanner is on a '>' record whose flag is a digit outside {0, 1, 6}
OnSkipRecord3 ==
    /\ pc = "scan3" /\ i >= 0 /\ i < Len(lines)
    /\ HasIdx(Cur, 0) /\ IsEpochStart3
    /\ FlagOk3 /\ ~Decodable(IntVal(FlagText3))
    /\ IntOk(NumSatsText3)

\* C5: on a v3 record whose status flag is not 0, 1 or 6 no epoch is
\* recorded and the line examined next is i + 1 + k, k being the count in the
\* columns the satellite count of a decodable epoch is read from.
C5_SkipRecord3 ==
    [][(OnSkipRecord3 /\ pc' = "scan3") =>
          /\ headerlines' = headerlines /\ obstimes' = obstimes /\ satlists' = satlists
          /\ i' = i + 1 + IntVal(NumSatsText3)]_vars

\* the v2.1x scanner is on a decodable epoch that declares n >= 1 satellites
OnEpoch21 ==
    /\ pc = "scan21" /\ i >= 0 /\ i < Len(lines)
    /\ IsEpochStart21
    /\ FlagOk21 /\ Decodable(IntVal(FlagText21))
    /\ IntOk(NumSatsText21) /\ IntVal(NumSatsText21) >= 1

\* C6: a decodable v2.1x epoch with n >= 1 declared satellites records one
\* list of n identifiers, identifier s being the three characters at column
\* 32 + 3 * (s mod 12) of the (s div 12)-th header line; the header length is
\* 1 + (n - 1) div 12, the header start is the first of these lines, and the
\* scan resumes at start + length + n * rowpersat.
C6_EpochRecord21 ==
    [][(OnEpoch21 /\ pc' = "scan21") =>
          LET n == IntVal(NumSatsText21)
          IN  /\ Len(satlists') = Len(satlists) + 1
              /\ Len(headerlengths') = Len(headerlengths) + 1
              /\ Len(headerlines') = Len(headerlines) + 1
              /\ Len(Last(satlists')) = n
              /\ \A s \in 0..(n - 1) :
                    Last(satlists')[s + 1] =
                        Slice(lines[i + (s \div 12) + 1], 32 + 3 * (s % 12), 35 + 3 * (s % 12))
              /\ Last(headerlengths') = 1 + (n - 1) \div 12
              /\ Last(headerlines') = i
              /\ i' = Last(headerlines') + Last(headerlengths') + n * rowpersat]_vars

\* C6 witness: an epoch of 13 satellites was recorded with a header of two
\* lines, its 13th identifier read from the second line, and the scanner
\* stands right after the record
C6_Witness ==
    /\ pc = "scan21"
    /\ \E e \in 1..Len(satlists) :
          /\ Len(satlists[e]) = 13
          /\ headerlengths[e] = 2
          /\ satlists[e][12] = G(12)
          /\ satlists[e][13] = G(13)
          /\ i = headerlines[e] + 2 + 13 * rowpersat

\* C7: decoding a satellite record whose lines are present in the file never
\* raises, in either generation: a field that is blank, unparsable or beyond
\* the end of a line that stops early is NaN.
C7_ShortRecordIsNaN ==
    (pc = "error" /\ exc = "struct.error")
        => (Is21(rinexversion) /\ Len(RecordLines21(iepoch, isat)) < DecoderRows)

\* C8: after a successful decode each letter's array has the shape (number
\* of decodable epochs, number of keys of the letter's PRN map = length of the
\* letter's satellite list, number of the letter's observables).
C8_ArrayShape ==
    pc = "done" =>
        \A l \in DOMAIN systemdata :
            /\ systemdata[l].shape =
                  <<Len(obstimes), Cardinality(DOMAIN prntoidx[l]), Len(obstypes[l])>>
            /\ Cardinality(DOMAIN prntoidx[l]) = Len(systemsatlists[l])
            /\ Len(obstimes) = Len(headerlines)

\* C9: every iteration of either scan loop moves the cursor forward: by 1,
\* by the record length or by skip + 1, so the loop ends at end of input.
C9_CursorAdvances ==
    /\ (pc = "scan21" /\ i >= 0 /\ i < Len(lines) /\ IsEpochStart21 /\ FlagOk21) =>
          /\ (~Decodable(IntVal(FlagText21)) /\ IntOk(SkipText21))
                => NextAfterSkip(i, IntVal(SkipText21)) > i
          /\ (Decodable(IntVal(FlagText21)) /\ IntOk(NumSatsText21))
                => NextAfterEpoch21(i, IntVal(NumSatsText21), rowpersat) > i
    /\ (pc = "scan3" /\ i >= 0 /\ i < Len(lines) /\ HasIdx(Cur, 0) /\ IsEpochStart3 /\ FlagOk3) =>
          /\ (~Decodable(IntVal(FlagText3)) /\ IntOk(SkipText3))
                => NextAfterSkip(i, IntVal(SkipText3)) > i
          /\ (Decodable(IntVal(FlagText3)) /\ IntOk(NumSatsText3))
                => NextAfterEpoch3(i, IntVal(NumSatsText3)) > i

\* C10: with N >= 1 observables, five to an 80-column line, the lines per
\* satellite the scanner and the decoder use are ceil(N / 5).
C10_RowsPerSatellite ==
    (pc \in {"scan21", "blocks21", "decode21", "done"} /\ Is21(rinexversion)
     /\ Len(Observables21(header)) >= 1)
        => /\ rowpersat = (Len(Observables21(header)) + 4) \div 5
           /\ DecoderRows = (Len(Observables21(header)) + 4) \div 5

=============================================================================
